---- MODULE Spec2Model ----
(***************************************************************************)
(* TSAEnhancedStrategy (src/tsa_enhanced_strategy.py): the bar-by-bar      *)
(* position state machine of run_backtest and the indicator pass run by    *)
(* the constructor.                                                        *)
(*                                                                         *)
(* Numbers.  Python floats are modelled by exact integers on a grid:       *)
(*   prices, atr, ema, dyn_ema, trend_speed ... hundredths (0.1 is 10,     *)
(*                                 1.0 is 100); the grid values make the   *)
(*                                 bracket arithmetic exact                *)
(*   normalized_speed ............ tenths (0.5 is 5, 0.3 is 3)             *)
(*   pnl, total_pnl .............. 1/PnlScale, PnlScale a common multiple  *)
(*                                 of every entry price, so the division   *)
(*                                 by entry_price is exact                 *)
(*   quotients of the adaptive EMA fixed point, FP for 1.0                 *)
(* NaN is one distinguished value; every comparison with it is false and   *)
(* every arithmetic result on it is NaN, as in numpy.                      *)
(*                                                                         *)
(* Spec       run_backtest on an instance, its rows read bar by bar.       *)
(* SpecNew    the constructor's indicator pass over an input series, then  *)
(*            run_backtest on the instance it built.                       *)
(* SpecEntry  the loop body of run_backtest on one row, no position open.  *)
(* SpecParams the constructors of TSAEnhancedStrategy and of               *)
(*            StrategyParameters (src/domain_models.py) on keyword         *)
(*            arguments.                                                   *)
(* SpecMulti  MultiDataBacktester.run_comprehensive_backtest               *)
(*            (src/multi_data_backtester.py) and its thread pool.          *)
(* SpecTsa    one iteration of the indicator loop at bar index 200, where  *)
(*            the rolling window is full.                                  *)
(* SpecTwice  two calls of run_backtest on one instance over a stored      *)
(*            series.                                                      *)
(***************************************************************************)
EXTENDS Integers, Sequences, FiniteSets, TLC

VARIABLES
    self,     \* the TSAEnhancedStrategy instance: its fields and its parameters
    i,        \* the bar index of run_backtest's loop
    bar,      \* the OHLC part of the row last read as `current`
    pc,       \* where the call modelled is: "tsa", "raised", "run", "loop", "done", ...
    results,  \* self.results
    data,     \* self.data as built by the constructor (SpecNew)
    tsa,      \* the loop variables of _calculate_tsa_indicators (SpecNew)
    kwargs,   \* the keyword arguments of a constructor call (SpecParams)
    iloc,     \* self.data.iloc[i], the row the entry check reads (SpecEntry)
    backtester  \* the MultiDataBacktester and its worker pool (SpecMulti)

vars == <<self, i, bar, pc, results, data, tsa, kwargs, iloc, backtester>>

\* ---------------------------------------------------------------- bounds
\* the longest series the model feeds to run_backtest
MaxBars == 203

\* a warm-up guard that is one bar short
WarmUp_short == 200 - 1

\* `if i < 200` of _check_entry_conditions
WarmUp == 200

\* ------------------------------------------------------------- float model
NaN == -999999

IsNum(a) == a # NaN

Gt(a, b) == IsNum(a) /\ IsNum(b) /\ a > b
Lt(a, b) == IsNum(a) /\ IsNum(b) /\ a < b
Ge(a, b) == IsNum(a) /\ IsNum(b) /\ a >= b
Le(a, b) == IsNum(a) /\ IsNum(b) /\ a =< b

Add(a, b) == IF IsNum(a) /\ IsNum(b) THEN a + b ELSE NaN
Sub(a, b) == IF IsNum(a) /\ IsNum(b) THEN a - b ELSE NaN
Mul(a, b) == IF IsNum(a) /\ IsNum(b) THEN a * b ELSE NaN

Abs(a) == IF a = NaN THEN NaN ELSE IF a < 0 THEN -a ELSE a

\* x * (num/den) for a ratio <<num, den>>
TimesRatio(x, r) == IF IsNum(x) THEN (x * r[1]) \div r[2] ELSE NaN

\* ------------------------------------------------------------- parameters
\* params.get(...) of __init__: the defaults (3.0, 1.5, 25) and one other
\* positive setting; risk_reward_ratio is a ratio <<num, den>>
ParamSets ==
    { [atr_multiplier |-> 3, risk_reward_ratio |-> <<3, 2>>, adx_threshold |-> 25],
      [atr_multiplier |-> 2, risk_reward_ratio |-> <<2, 1>>, adx_threshold |-> 20] }

\* ------------------------------------------------------------------ rows
\* self.data.iloc[i]: the OHLC bar and the indicator columns of bar i
Closes == {20, 24}
HiOffs == {0, 9}
LoOffs == {0, 6}
DynEmas == {18, 24, 26}
TrendSpeeds == {-50, 5, 50}
NormSpeeds == {5, 8}
DiPairs == {<<30, 10>>, <<10, 30>>}
Adxs == {NaN, 25, 40}
EmaPairs == {<<24, 20>>, <<20, 24>>}
Atrs == {NaN, 0, 2}

Bars == { [close |-> c, high |-> c + h, low |-> c - l] :
            c \in Closes, h \in HiOffs, l \in LoOffs }

Indicators ==
    { [atr |-> a, adx |-> x, plus_di |-> d[1], minus_di |-> d[2],
       ema_fast |-> e[1], ema_slow |-> e[2], dyn_ema |-> y,
       trend_speed |-> t, normalized_speed |-> n] :
         a \in Atrs, x \in Adxs, d \in DiPairs, e \in EmaPairs,
         y \in DynEmas, t \in TrendSpeeds, n \in NormSpeeds }

\* the row the methods read as `current`
Row(b, ind) == [close |-> b.close, high |-> b.high, low |-> b.low,
                atr |-> ind.atr, adx |-> ind.adx, plus_di |-> ind.plus_di,
                minus_di |-> ind.minus_di, ema_fast |-> ind.ema_fast,
                ema_slow |-> ind.ema_slow, dyn_ema |-> ind.dyn_ema,
                trend_speed |-> ind.trend_speed,
                normalized_speed |-> ind.normalized_speed]

NoBar == [close |-> NaN, high |-> NaN, low |-> NaN]

\* self.data.index[k], the timestamp of bar k
index(k) == <<"t", k>>

\* a common multiple of every close, the unit of pnl
PnlScale ==
    CHOOSE m \in 1..(20 * 24) :
        /\ \A c \in Closes : m % c = 0
        /\ \A k \in 1..(m - 1) : \E c \in Closes : k % c # 0

\* ------------------------------------------------- TSAEnhancedStrategy
\* _initialize_variables, with self.trades = [] of __init__
InitialSelf(p) ==
    [params |-> p,
     position_size |-> 0, entry_price |-> 0, stop_loss |-> 0, take_profit |-> 0,
     in_position |-> FALSE, trade_count |-> 0, win_count |-> 0, loss_count |-> 0,
     total_pnl |-> 0, trades |-> <<>>]

\* an entry check without the ATR band confirmation
atr_confirmation_skipped(current, p, direction) == TRUE

\* "ATR Band Confirmation" of _check_entry_conditions
atr_confirmation(current, p, direction) ==
    IF direction = "long"
    THEN Gt(current.close, Sub(current.close, Mul(current.atr, p.atr_multiplier)))
    ELSE Lt(current.close, Add(current.close, Mul(current.atr, p.atr_multiplier)))

\* a consolidation filter that never holds
tsa_consolidation_never(current) == FALSE

\* tsa_consolidation of _check_entry_conditions
tsa_consolidation(current) ==
    \/ Lt(Abs(current.trend_speed), 10)
    \/ Lt(current.normalized_speed, 3)

\* _check_entry_conditions(i) read against row `current`: <<should_enter, direction>>
check_entry_conditions(s, k, current) ==
    IF k < WarmUp THEN <<FALSE, "">>
    ELSE
    LET tsa_green == Gt(current.trend_speed, 0) /\ Gt(current.normalized_speed, 5)
        tsa_red == Lt(current.trend_speed, 0) /\ Gt(current.normalized_speed, 5)
        adx_bullish == Gt(current.plus_di, current.minus_di)
        adx_bearish == Gt(current.minus_di, current.plus_di)
        adx_strong == Gt(current.adx, s.params.adx_threshold)
        ema_bullish == Gt(current.ema_fast, current.ema_slow)
        ema_bearish == Gt(current.ema_slow, current.ema_fast)
        adx_long_filter == adx_bullish /\ adx_strong /\ ema_bullish
        adx_short_filter == adx_bearish /\ adx_strong /\ ema_bearish
        atr_long_confirmation == atr_confirmation(current, s.params, "long")
        atr_short_confirmation == atr_confirmation(current, s.params, "short")
        long_condition == /\ Gt(current.close, current.dyn_ema)
                          /\ tsa_green
                          /\ adx_long_filter
                          /\ atr_long_confirmation
                          /\ ~tsa_consolidation(current)
        short_condition == /\ Lt(current.close, current.dyn_ema)
                           /\ tsa_red
                           /\ adx_short_filter
                           /\ atr_short_confirmation
                           /\ ~tsa_consolidation(current)
    IN  IF long_condition /\ ~s.in_position THEN <<TRUE, "long">>
        ELSE IF short_condition /\ ~s.in_position THEN <<TRUE, "short">>
        ELSE <<FALSE, "">>

\* an exit check that misses a bar touching the bracket exactly
check_exit_conditions_strict(s, k, current) ==
    IF ~s.in_position THEN FALSE
    ELSE IF s.position_size > 0
         THEN Lt(current.low, s.stop_loss) \/ Gt(current.high, s.take_profit)
         ELSE Gt(current.high, s.stop_loss) \/ Lt(current.low, s.take_profit)

\* _check_exit_conditions(i)
check_exit_conditions(s, k, current) ==
    IF ~s.in_position THEN FALSE
    ELSE IF s.position_size > 0
         THEN Le(current.low, s.stop_loss) \/ Ge(current.high, s.take_profit)
         ELSE Ge(current.high, s.stop_loss) \/ Le(current.low, s.take_profit)

\* _enter_position(i, direction)
enter_position(s, k, current, direction) ==
    LET entry == current.close
        risk == Mul(current.atr, s.params.atr_multiplier)
        stop == IF direction = "long" THEN Sub(entry, risk) ELSE Add(entry, risk)
        take == IF direction = "long"
                THEN Add(entry, TimesRatio(Sub(entry, stop), s.params.risk_reward_ratio))
                ELSE Sub(entry, TimesRatio(Sub(stop, entry), s.params.risk_reward_ratio))
    IN  [s EXCEPT !.entry_price = entry,
                  !.position_size = IF direction = "long" THEN 1 ELSE -1,
                  !.in_position = TRUE,
                  !.stop_loss = stop,
                  !.take_profit = take,
                  !.trade_count = @ + 1]

\* the return with the operands swapped
Return_swapped(a, b, entry) == ((b - a) * PnlScale) \div entry

\* (a - b) / entry_price in units of 1/PnlScale
Return(a, b, entry) == ((a - b) * PnlScale) \div entry

\* a reset that forgets `self.position_size = 0`
reset_in_position_only(s) == <<FALSE, s.position_size>>

\* "Reset position" of _exit_position: <<in_position, position_size>>
reset_position(s) == <<FALSE, 0>>

\* a win test that counts a trade of pnl 0 as a win
is_win_or_flat(pnl) == pnl >= 0

\* `if pnl > 0` of _exit_position: the trade counts as a win
is_win(pnl) == pnl > 0

\* an exit filled at the bracket level the bar touched
exit_price_at_level(s, current) ==
    IF s.position_size > 0
    THEN IF Le(current.low, s.stop_loss) THEN s.stop_loss
         ELSE IF Ge(current.high, s.take_profit) THEN s.take_profit
         ELSE current.close
    ELSE IF Ge(current.high, s.stop_loss) THEN s.stop_loss
         ELSE IF Le(current.low, s.take_profit) THEN s.take_profit
         ELSE current.close

\* `exit_price = current['close']` of _exit_position
exit_price(s, current) == current.close

\* _exit_position(i)
exit_position(s, k, current) ==
    IF ~s.in_position THEN s
    ELSE
    LET pnl == IF s.position_size > 0
               THEN Return(exit_price(s, current), s.entry_price, s.entry_price)
               ELSE Return(s.entry_price, exit_price(s, current), s.entry_price)
        trade == [entry_bar |-> k,   \* i - len(self.data) + len(self.data)
                  exit_bar |-> k,
                  entry_price |-> s.entry_price,
                  exit_price |-> exit_price(s, current),
                  position_size |-> s.position_size,
                  pnl |-> pnl,
                  stop_loss |-> s.stop_loss,
                  take_profit |-> s.take_profit,
                  entry_date |-> index(k),
                  exit_date |-> index(k)]
    IN  [s EXCEPT !.total_pnl = @ + pnl,
                  !.win_count = IF is_win(pnl) THEN @ + 1 ELSE @,
                  !.loss_count = IF is_win(pnl) THEN @ ELSE @ + 1,
                  !.trades = Append(@, trade),
                  !.in_position = reset_position(s)[1],
                  !.position_size = reset_position(s)[2]]

\* the loop body with the entry check ahead of the exit check
run_bar_entry_first(s, k, current) ==
    LET e == check_entry_conditions(s, k, current)
        s1 == IF ~s.in_position /\ e[1]
              THEN enter_position(s, k, current, e[2]) ELSE s
    IN  IF s1.in_position /\ check_exit_conditions(s1, k, current)
        THEN exit_position(s1, k, current) ELSE s1

\* the loop body with a further exit check after the entry
run_bar_exit_after_entry(s, k, current) ==
    LET s1 == IF s.in_position /\ check_exit_conditions(s, k, current)
              THEN exit_position(s, k, current) ELSE s
        e == check_entry_conditions(s1, k, current)
        s2 == IF ~s1.in_position /\ e[1]
              THEN enter_position(s1, k, current, e[2]) ELSE s1
    IN  IF s2.in_position /\ check_exit_conditions(s2, k, current)
        THEN exit_position(s2, k, current) ELSE s2

\* the body of run_backtest's for loop at bar k
run_bar(s, k, current) ==
    LET s1 == IF s.in_position /\ check_exit_conditions(s, k, current)
              THEN exit_position(s, k, current) ELSE s
        e == check_entry_conditions(s1, k, current)
    IN  IF ~s1.in_position /\ e[1]
        THEN enter_position(s1, k, current, e[2])
        ELSE s1

\* a return that leaves the last position open
close_remaining_forgotten(s, n, last) == s

\* run_backtest after the loop: close any remaining position at the last bar
close_remaining(s, n, last) ==
    IF s.in_position THEN exit_position(s, n - 1, last) ELSE s

\* ------------------------------------------------------------ results
RECURSIVE SumSeq(_)
SumSeq(q) == IF q = <<>> THEN 0 ELSE q[1] + SumSeq(Tail(q))

\* np.cumsum
cumsum(q) == [k \in 1..Len(q) |-> SumSeq(SubSeq(q, 1, k))]

MaxOf(S) == CHOOSE m \in S : \A x \in S : x =< m
MinOf(S) == CHOOSE m \in S : \A x \in S : m =< x

\* a running maximum that starts from 0 rather than from the first value
maximum_accumulate_from_zero(q) ==
    [k \in 1..Len(q) |-> MaxOf({0} \cup {q[j] : j \in 1..k})]

\* np.maximum.accumulate
maximum_accumulate(q) == [k \in 1..Len(q) |-> MaxOf({q[j] : j \in 1..k})]

\* sum([t['pnl'] for t in trades if t['pnl'] > 0]), or < 0 for sign -1
SelectPnl(trades, sign) ==
    SumSeq([k \in 1..Len(trades) |->
               IF sign * trades[k].pnl > 0 THEN trades[k].pnl ELSE 0])

Inf == <<1, 0>>
Zero == <<0, 1>>

\* _calculate_results: the dictionary stored in self.results.  Quotients are
\* ratios <<num, den>>; float('inf') is Inf.
calculate_results(s) ==
    IF s.trades = <<>>
    THEN [total_trades |-> 0, win_rate |-> Zero, total_return |-> 0,
          profit_factor |-> Zero, max_drawdown |-> 0, sharpe_ratio |-> Zero,
          avg_trade |-> Zero, gross_profit |-> 0, gross_loss |-> 0]
    ELSE
    LET total_trades == Len(s.trades)
        win_rate == IF total_trades > 0 THEN <<s.win_count, total_trades>> ELSE Zero
        gross_profit == SelectPnl(s.trades, 1)
        gross_loss == Abs(SelectPnl(s.trades, -1))
        profit_factor == IF gross_loss > 0 THEN <<gross_profit, gross_loss>> ELSE Inf
        returns == [k \in 1..total_trades |-> s.trades[k].pnl]
        cumulative_returns == cumsum(returns)
        running_max == maximum_accumulate(cumulative_returns)
        drawdown == [k \in 1..total_trades |->
                        cumulative_returns[k] - running_max[k]]
        max_drawdown == Abs(MinOf({drawdown[k] : k \in 1..total_trades}))
        \* n^2 * variance; np.std(returns) > 0 iff it is positive
        spread == total_trades * SumSeq([k \in 1..total_trades |->
                                            returns[k] * returns[k]])
                  - SumSeq(returns) * SumSeq(returns)
        sharpe_ratio == IF spread > 0
                        THEN <<"mean/std", SumSeq(returns), total_trades, spread>>
                        ELSE Zero
    IN  [total_trades |-> total_trades, win_rate |-> win_rate,
         total_return |-> s.total_pnl, profit_factor |-> profit_factor,
         max_drawdown |-> max_drawdown, sharpe_ratio |-> sharpe_ratio,
         avg_trade |-> <<SumSeq(returns), total_trades>>,
         gross_profit |-> gross_profit, gross_loss |-> gross_loss,
         win_count |-> s.win_count, loss_count |-> s.loss_count]

\* the loop of CipherBacktester._calculate_max_drawdown over cumulative_pnl
RECURSIVE max_dd_scan(_, _, _)
max_dd_scan(cumulative_pnl, peak, max_dd) ==
    IF cumulative_pnl = <<>> THEN max_dd
    ELSE LET pnl == Head(cumulative_pnl)
             peak1 == IF pnl > peak THEN pnl ELSE peak
             dd == peak1 - pnl
         IN  max_dd_scan(Tail(cumulative_pnl), peak1,
                         IF dd > max_dd THEN dd ELSE max_dd)

\* CipherBacktester._calculate_max_drawdown (src/cipher_integration.py) over
\* the pnl values of the sessions
calculate_max_drawdown(pnls) ==
    IF pnls = <<>> THEN 0
    ELSE LET cumulative_pnl == cumsum(pnls)
         IN  max_dd_scan(cumulative_pnl, cumulative_pnl[1], 0)

\* ------------------------------------------------------ run_backtest
\* The series is read bar by bar: row i is drawn when the loop reaches it, and
\* len(self.data) is fixed when the loop ends.
\* self.results = {} of __init__
NoResults == <<>>

\* no constructor call, no row and no MultiDataBacktester are part of a run of
\* run_backtest
NoKwargs == <<>>
NoRow == <<>>
NoBacktester == <<>>

\* the loop variables of _calculate_tsa_indicators before its loop
InitialTsa == [k |-> 0, prev_counts_diff |-> 0, dyn_ema_prev |-> 0,
               speed |-> 0, pos |-> 0, x1 |-> 0, y1 |-> 0]

Init ==
    /\ \E p \in ParamSets : self = InitialSelf(p)
    /\ i = 0
    /\ bar = NoBar
    /\ pc = "loop"
    /\ results = NoResults
    /\ data = <<>>
    /\ tsa = InitialTsa
    /\ kwargs = NoKwargs
    /\ iloc = NoRow
    /\ backtester = NoBacktester

\* whether iteration k reads self.data.iloc[k]: _check_exit_conditions does when
\* a position is open, _check_entry_conditions once past its warm-up return
reads_row(s, k) == s.in_position \/ ~(k < WarmUp)

\* one iteration of `for i in range(len(self.data))`; bar is the OHLC part of
\* the row the methods last read as `current`
LoopBar ==
    /\ pc = "loop"
    /\ i < MaxBars
    /\ \E b \in Bars, ind \in Indicators :
          /\ self' = run_bar(self, i, Row(b, ind))
          /\ bar' = IF reads_row(self, i) THEN b ELSE bar
    /\ i' = i + 1
    /\ UNCHANGED <<pc, results, data, tsa, kwargs, iloc, backtester>>

\* the loop is over (len(self.data) = i): close any remaining position,
\* calculate the results and return them
Return_results ==
    /\ pc = "loop"
    /\ LET s1 == close_remaining(self, i, bar)
       IN  /\ self' = s1
           /\ results' = calculate_results(s1)
    /\ pc' = "done"
    /\ UNCHANGED <<i, bar, data, tsa, kwargs, iloc, backtester>>

Next == LoopBar \/ Return_results

Spec == Init /\ [][Next]_vars

\* ============================================ the constructor (SpecNew)
\* the longest series the model hands to the constructor bar by bar
MaxLen == 5

\* params.get defaults of __init__
atr_length == 14
adx_length == 14
max_length == 50
accel_multiplier == 5
collen == 100

DefaultParams ==
    [atr_multiplier |-> 3, risk_reward_ratio |-> <<3, 2>>, adx_threshold |-> 25]

\* rolling(200)
Window == 200

\* the period _calculate_tsa_indicators passes to _calculate_hma
HmaPeriod == 5

\* quotients of the adaptive EMA (counts_diff_norm, accel_factor, alpha) are
\* fixed-point numbers with FP for 1.0
FP == 100 * 100

FDiv(a, b) == IF IsNum(a) /\ IsNum(b) /\ b # 0 THEN (a * FP) \div b ELSE NaN
FMul(a, b) == IF IsNum(a) /\ IsNum(b) THEN (a * b) \div FP ELSE NaN

\* Python's max(a, b) and min(a, b): a unless b compares beyond it
PyMax(a, b) == IF Gt(b, a) THEN b ELSE a
PyMin(a, b) == IF Lt(b, a) THEN b ELSE a

\* seq[n:] of Python
SliceFrom(q, n) ==
    IF n < 0
    THEN SubSeq(q, MaxOf({1, Len(q) + n + 1}), Len(q))
    ELSE SubSeq(q, n + 1, Len(q))

\* the input bars of the constructor: open, high, low, close in hundredths
InputBars ==
    { [open |-> o, high |-> MaxOf({o, c}) + 1, low |-> MinOf({o, c}) - 1,
       close |-> c] : c \in Closes, o \in {20, 22, 26} }

\* close[k] = 100 + 0.5 k, high = close + 0.3, low = close - 0.3,
\* open = close - 0.1, 300 bars
Rising ==
    [n \in 1..300 |->
        [open |-> 10000 + 50 * (n - 1) - 10, high |-> 10000 + 50 * (n - 1) + 30,
         low |-> 10000 + 50 * (n - 1) - 30, close |-> 10000 + 50 * (n - 1)]]

\* a constant-price series of n bars: open = high = low = close = c
Constant(c, n) ==
    [m \in 1..n |-> [open |-> c, high |-> c, low |-> c, close |-> c]]

\* constant-price series, short ones and one longer than the warm-up
ConstantSeries == {Constant(c, n) : c \in Closes, n \in (1..MaxLen) \cup {250}}

InputSeries ==
    UNION {[1..n -> InputBars] : n \in 0..MaxLen} \cup {Rising} \cup ConstantSeries

\* self.data after `self.data['dyn_ema'] = 0.0` and the two columns after it
WithTsaColumns(series) ==
    [n \in 1..Len(series) |->
        [open |-> series[n].open, high |-> series[n].high,
         low |-> series[n].low, close |-> series[n].close,
         dyn_ema |-> 0, trend_speed |-> 0, normalized_speed |-> 0]]

\* counts_diff.rolling(200).apply(lambda x: np.abs(x).max()) at index k
rolling_max_abs(d, k) ==
    IF k < Window - 1 THEN NaN
    ELSE MaxOf({Abs(d[j + 1].close) : j \in (k - Window + 1)..k})

\* dyn_length at index k, in FP
dyn_length(d, k) ==
    LET counts_diff == d[k + 1].close
        max_abs_counts_diff == rolling_max_abs(d, k)
        counts_diff_norm == FDiv(Add(counts_diff, max_abs_counts_diff),
                                 Mul(2, max_abs_counts_diff))
    IN  Add(5 * FP, Mul(counts_diff_norm, max_length - 5))

\* np.average(a, weights=w): the shapes must agree
np_average(a, w) ==
    IF Len(a) # Len(w)
    THEN [raised |-> TRUE, value |-> NaN]
    ELSE [raised |-> FALSE,
          value |-> SumSeq([n \in 1..Len(a) |-> a[n] * w[n]]) \div SumSeq(w)]

\* range(1, n)
range1(n) == [m \in 1..(n - 1) |-> m]

\* _calculate_hma(value, period, current_idx): [raised, value]
calculate_hma(d, value, period, current_idx) ==
    IF current_idx < period - 1 THEN [raised |-> FALSE, value |-> value]
    ELSE
    LET start_idx == MaxOf({0, current_idx - period + 1})
        values == [n \in 1..(current_idx + 1 - start_idx) |->
                      d[start_idx + n].trend_speed]
    IN  IF Len(values) < period THEN [raised |-> FALSE, value |-> value]
        ELSE
        LET wma_half == np_average(SliceFrom(values, (-period) \div 2),
                                   range1(period \div 2 + 1))
            wma_full == np_average(values, range1(period + 1))
        IN  IF wma_half.raised \/ wma_full.raised
            THEN [raised |-> TRUE, value |-> NaN]
            ELSE [raised |-> FALSE, value |-> 2 * wma_half.value - wma_full.value]

\* accel_factor of the iteration at index st.k >= 1, in FP
accel_factor(d, st) ==
    LET current_counts_diff == d[st.k + 1].close
        delta_counts_diff == Abs(current_counts_diff - st.prev_counts_diff)
        max_delta_counts_diff == PyMax(rolling_max_abs(d, st.k), 100)
    IN  FDiv(delta_counts_diff, max_delta_counts_diff)

\* alpha of the iteration at index st.k >= 1, in FP
alpha(d, st) ==
    LET alpha_base == FDiv(2 * FP, Add(dyn_length(d, st.k), FP))
    IN  PyMin(FP, FMul(alpha_base,
                       Add(FP, Mul(accel_factor(d, st), accel_multiplier))))

\* dyn_ema of the iteration at index st.k >= 1, a its alpha
dyn_ema(d, st, a) ==
    (a * d[st.k + 1].close + (FP - a) * st.dyn_ema_prev) \div FP

\* "Trend direction detection" of the iteration at index st.k >= 1, ema its
\* dyn_ema
crossover(d, st, ema) ==
    LET current_close == d[st.k + 1].close
        prev_close == d[st.k].close
    IN  IF current_close > ema /\ prev_close =< ema THEN "bullish"
        ELSE IF current_close < ema /\ prev_close >= ema THEN "bearish"
        ELSE "none"

\* speed after "Update speed" of the iteration at index st.k >= 1, cross its
\* crossover
speed(d, st, cross) ==
    LET current_close == d[st.k + 1].close
        current_open == d[st.k + 1].open
        reset == IF cross = "none" THEN st.speed ELSE current_close - current_open
    IN  reset + (current_close - current_open)

\* the iteration at index st.k >= 1 from "Trend direction detection" on, ema
\* its dyn_ema: [raised, data, tsa]
tsa_update(d, st, ema) ==
    LET k == st.k
        row == d[k + 1]
        cross == crossover(d, st, ema)
        d1 == [d EXCEPT ![k + 1].dyn_ema = ema]
        st1 == IF cross = "none"
               THEN [st EXCEPT !.speed = speed(d, st, cross)]
               ELSE [st EXCEPT !.x1 = k, !.y1 = row.close,
                               !.pos = IF cross = "bullish" THEN 1 ELSE -1,
                               !.speed = speed(d, st, cross)]
        hma == calculate_hma(d1, speed(d, st, cross), HmaPeriod, k)
    IN
    IF hma.raised
    THEN [raised |-> TRUE, data |-> d1, tsa |-> st1]
    ELSE
    LET trend_speed == hma.value
        d2 == [d1 EXCEPT ![k + 1].trend_speed = trend_speed]
        speed_window == {d2[j + 1].trend_speed : j \in (k - collen + 1)..k}
        normalized_speed ==
            IF k >= collen
            THEN LET min_speed == MinOf(speed_window)
                     max_speed == MaxOf(speed_window)
                 IN  IF max_speed # min_speed
                     THEN ((trend_speed - min_speed) * 10)
                             \div (max_speed - min_speed)
                     ELSE 5
            ELSE 5
    IN  [raised |-> FALSE,
         data |-> [d2 EXCEPT ![k + 1].normalized_speed = normalized_speed],
         tsa |-> [st1 EXCEPT !.k = k + 1,
                             !.prev_counts_diff = row.close,
                             !.dyn_ema_prev = ema]]

\* one iteration of the loop of _calculate_tsa_indicators at index st.k:
\* [raised, data, tsa]
tsa_iteration(d, st) ==
    IF st.k = 0
    THEN [raised |-> FALSE,
          data |-> [d EXCEPT ![1].dyn_ema = d[1].close],
          tsa |-> [st EXCEPT !.k = 1, !.x1 = 0, !.y1 = d[1].open,
                             !.dyn_ema_prev = d[1].close]]
    ELSE tsa_update(d, st, dyn_ema(d, st, alpha(d, st)))

\* the whole loop of _calculate_tsa_indicators from loop state st: [raised, data]
RECURSIVE tsa_pass(_, _)
tsa_pass(d, st) ==
    IF st.k >= Len(d) THEN [raised |-> FALSE, data |-> d]
    ELSE LET out == tsa_iteration(d, st)
         IN  IF out.raised THEN [raised |-> TRUE, data |-> out.data]
             ELSE tsa_pass(out.data, out.tsa)

\* a talib output column at index k: NaN through its look-back, then a value
\* of the library's
talib(k, lookback, Values) == IF k < lookback THEN {NaN} ELSE Values \ {NaN}

\* the rows self.data.iloc[k] can be after _calculate_indicators
RowsOf(d, k) ==
    { [close |-> d[k + 1].close, high |-> d[k + 1].high, low |-> d[k + 1].low,
       atr |-> a, adx |-> x, plus_di |-> dp, minus_di |-> dm,
       ema_fast |-> ef, ema_slow |-> es,
       dyn_ema |-> d[k + 1].dyn_ema, trend_speed |-> d[k + 1].trend_speed,
       normalized_speed |-> d[k + 1].normalized_speed] :
         a \in talib(k, atr_length, Atrs),
         x \in talib(k, 2 * adx_length - 1, Adxs),
         dp \in talib(k, adx_length, {10, 30}),
         dm \in talib(k, adx_length, {10, 30}),
         ef \in talib(k, 12 - 1, {20, 24}),
         es \in talib(k, 50 - 1, {20, 24}) }

InitNew ==
    /\ \E series \in InputSeries : data = WithTsaColumns(series)
    /\ tsa = InitialTsa
    /\ self = InitialSelf(DefaultParams)
    /\ i = 0
    /\ bar = NoBar
    /\ pc = "tsa"
    /\ results = NoResults
    /\ kwargs = NoKwargs
    /\ iloc = NoRow
    /\ backtester = NoBacktester

\* an iteration of the indicator loop that completes
Tsa_bar ==
    /\ pc = "tsa"
    /\ tsa.k < Len(data)
    /\ LET out == tsa_iteration(data, tsa)
       IN  /\ ~out.raised
           /\ data' = out.data
           /\ tsa' = out.tsa
    /\ UNCHANGED <<self, i, bar, pc, results, kwargs, iloc, backtester>>

\* an iteration in which _calculate_hma raises: the exception leaves
\* __init__, no instance exists
Tsa_raise ==
    /\ pc = "tsa"
    /\ tsa.k < Len(data)
    /\ LET out == tsa_iteration(data, tsa)
       IN  /\ out.raised
           /\ data' = out.data
           /\ tsa' = out.tsa
    /\ pc' = "raised"
    /\ UNCHANGED <<self, i, bar, results, kwargs, iloc, backtester>>

\* the loop is over: __init__ returns and run_backtest is called
Constructed ==
    /\ pc = "tsa"
    /\ tsa.k = Len(data)
    /\ pc' = "run"
    /\ UNCHANGED <<self, i, bar, results, data, tsa, kwargs, iloc, backtester>>

\* one iteration of run_backtest's loop over the constructed self.data
Run_bar ==
    /\ pc = "run"
    /\ i < Len(data)
    /\ \E current \in RowsOf(data, i) :
          /\ self' = run_bar(self, i, current)
          /\ bar' = IF reads_row(self, i)
                    THEN [close |-> current.close, high |-> current.high,
                          low |-> current.low]
                    ELSE bar
    /\ i' = i + 1
    /\ UNCHANGED <<pc, results, data, tsa, kwargs, iloc, backtester>>

\* the end of run_backtest over the constructed self.data
Run_return ==
    /\ pc = "run"
    /\ i = Len(data)
    /\ LET s1 == close_remaining(self, i, bar)
       IN  /\ self' = s1
           /\ results' = calculate_results(s1)
    /\ pc' = "done"
    /\ UNCHANGED <<i, bar, data, tsa, kwargs, iloc, backtester>>

NextNew == Tsa_bar \/ Tsa_raise \/ Constructed \/ Run_bar \/ Run_return

SpecNew == InitNew /\ [][NextNew]_vars

\* ================================= constructor parameters (SpecParams)
\* the length, multiplier and ratio parameters a constructor call can name
ParamNames ==
    {"atr_length", "atr_multiplier", "risk_reward_ratio", "adx_length",
     "max_length", "accel_multiplier", "collen"}

\* the values a keyword argument takes: a negative one, zero, a positive one
ParamValues == {-1, 0, 2}

\* **params: any of the names, each with a value
KwargSets == UNION {[K -> ParamValues] : K \in SUBSET ParamNames}

\* params.get(name, default)
get(params, name, default) ==
    IF name \in DOMAIN params THEN params[name] ELSE default

\* the attributes __init__ reads from params
Parameters(params) ==
    [atr_length |-> get(params, "atr_length", atr_length),
     atr_multiplier |-> get(params, "atr_multiplier", DefaultParams.atr_multiplier),
     risk_reward_ratio |->
         IF "risk_reward_ratio" \in DOMAIN params
         THEN <<params["risk_reward_ratio"], 1>>
         ELSE DefaultParams.risk_reward_ratio,
     adx_length |-> get(params, "adx_length", adx_length),
     adx_threshold |-> DefaultParams.adx_threshold,
     max_length |-> get(params, "max_length", max_length),
     accel_multiplier |-> get(params, "accel_multiplier", accel_multiplier),
     collen |-> get(params, "collen", collen)]

\* TA-Lib refuses a timeperiod below the least one of the function (ATR,
\* PLUS_DI, MINUS_DI: 1; ADX: 2) and the wrapper raises
talib_raises(timeperiod, least) == timeperiod < least

\* the fields of StrategyParameters among ParamNames
ParameterFields ==
    {"atr_length", "atr_multiplier", "risk_reward_ratio", "adx_length"}

\* StrategyParameters.__post_init__ raises ValueError
post_init_raises(p) ==
    \/ p.atr_length =< 0
    \/ p.atr_multiplier =< 0
    \/ p.risk_reward_ratio[1] =< 0

NoInstance == <<>>

InitParams ==
    /\ kwargs \in KwargSets
    /\ self = NoInstance
    /\ pc = "new"
    /\ i = 0
    /\ bar = NoBar
    /\ results = NoResults
    /\ data = <<>>
    /\ tsa = InitialTsa
    /\ iloc = NoRow
    /\ backtester = NoBacktester

\* TSAEnhancedStrategy(data, **kwargs) on a series short enough for the
\* indicator pass to complete (fewer than 5 bars)
New_strategy ==
    /\ pc = "new"
    /\ LET p == Parameters(kwargs)
       IN  IF talib_raises(p.atr_length, 1) \/ talib_raises(p.adx_length, 2)
           THEN pc' = "Exception" /\ self' = self
           ELSE pc' = "strategy" /\ self' = InitialSelf(p)
    /\ UNCHANGED <<i, bar, results, data, tsa, kwargs, iloc, backtester>>

\* StrategyParameters(**kwargs)
New_parameters ==
    /\ pc = "new"
    /\ LET p == Parameters(kwargs)
       IN  IF ~(DOMAIN kwargs \subseteq ParameterFields)
           THEN pc' = "TypeError" /\ self' = self
           ELSE IF post_init_raises(p)
           THEN pc' = "ValueError" /\ self' = self
           ELSE /\ pc' = "parameters"
                /\ self' = [atr_length |-> p.atr_length,
                            atr_multiplier |-> p.atr_multiplier,
                            risk_reward_ratio |-> p.risk_reward_ratio,
                            adx_length |-> p.adx_length,
                            adx_threshold |-> p.adx_threshold]
    /\ UNCHANGED <<i, bar, results, data, tsa, kwargs, iloc, backtester>>

NextParams == New_strategy \/ New_parameters

SpecParams == InitParams /\ [][NextParams]_vars

\* ================================ MultiDataBacktester (SpecMulti)
\* src/multi_data_backtester.py: run_comprehensive_backtest submits one
\* run_single_backtest per data source to a thread pool and collects the
\* results as the futures complete.

\* the number of data sources (self.data_sources)
MaxSources == 3

Sources == 1..MaxSources

\* strategy classes, by the dictionary their run_backtest returns: "flat" has
\* the metrics at its top level (as TSAEnhancedStrategy's), "nested" has them
\* under a 'results' key
StrategyClasses == {"flat", "nested"}

\* what happens in run_single_backtest: data missing or shorter than 200 bars,
\* an exception in the strategy, or a completed run
Outcomes == {"insufficient", "exception", "success"}

\* the dictionary of a failed run
failed(s, error) ==
    [symbol |-> s, status |-> "failed", error |-> error, results |-> <<>>]

\* run_single_backtest(data_source, strategy_class, strategy_params): the
\* dictionary it returns; every Exception is caught inside it
run_single_backtest(s, strategy_class, outcome) ==
    IF outcome = "insufficient" THEN failed(s, "Insufficient data")
    ELSE IF outcome = "exception" THEN failed(s, "str(e)")
    ELSE IF strategy_class = "nested"
    THEN [symbol |-> s, status |-> "success", results |-> [total_return |-> 0]]
    ELSE [symbol |-> s, status |-> "success", total_return |-> 0]

IsSuccess(r) == r.status = "success"
IsFailed(r) == r.status = "failed"

\* _calculate_summary raises KeyError: r['results'] of a successful result
\* that has no 'results' key
summary_raises(all) ==
    \E n \in 1..Len(all) : IsSuccess(all[n]) /\ "results" \notin DOMAIN all[n]

\* _calculate_summary(results), when it returns
calculate_summary(all) ==
    LET successful == SelectSeq(all, IsSuccess)
    IN  IF Len(successful) = 0
        THEN [total_tests |-> Len(all), successful_tests |-> 0,
              success_rate |-> Zero]
        ELSE [total_tests |-> Len(all), successful_tests |-> Len(successful),
              success_rate |-> <<Len(successful), Len(all)>>]

\* the futures that are running in a pool thread
Running(b) == {s \in Sources : b.futures[s].state = "running"}

InitMulti ==
    /\ \E c \in StrategyClasses, w \in {1, 2, 4} :
          backtester = [strategy_class |-> c, max_workers |-> w,
                        futures |-> [s \in Sources |->
                                        [state |-> "pending", result |-> <<>>]],
                        collected |-> {}, all_results |-> <<>>, results |-> <<>>]
    /\ pc = "collect"
    /\ self = NoInstance
    /\ i = 0
    /\ bar = NoBar
    /\ results = NoResults
    /\ data = <<>>
    /\ tsa = InitialTsa
    /\ kwargs = NoKwargs
    /\ iloc = NoRow

\* a free pool thread takes a submitted task
Worker_start(s) ==
    /\ pc = "collect"
    /\ backtester.futures[s].state = "pending"
    /\ Cardinality(Running(backtester)) < backtester.max_workers
    /\ backtester' = [backtester EXCEPT !.futures[s].state = "running"]
    /\ UNCHANGED <<self, i, bar, pc, results, data, tsa, kwargs, iloc>>

\* run_single_backtest returns in its thread: the future is done
Worker_finish(s) ==
    /\ pc = "collect"
    /\ backtester.futures[s].state = "running"
    /\ \E outcome \in Outcomes :
          backtester' =
              [backtester EXCEPT
                  !.futures[s] =
                      [state |-> "done",
                       result |-> run_single_backtest(
                                      s, backtester.strategy_class, outcome)]]
    /\ UNCHANGED <<self, i, bar, pc, results, data, tsa, kwargs, iloc>>

\* as_completed yields a done future: all_results.append(future.result())
Collect(s) ==
    /\ pc = "collect"
    /\ backtester.futures[s].state = "done"
    /\ s \notin backtester.collected
    /\ backtester' =
          [backtester EXCEPT
              !.collected = @ \cup {s},
              !.all_results = Append(@, backtester.futures[s].result)]
    /\ UNCHANGED <<self, i, bar, pc, results, data, tsa, kwargs, iloc>>

\* "Organize results": every future was collected; self.results is built,
\* with the summary, and returned, unless _calculate_summary raises
Organize ==
    /\ pc = "collect"
    /\ backtester.collected = Sources
    /\ LET all == backtester.all_results
       IN  IF summary_raises(all)
           THEN pc' = "KeyError" /\ backtester' = backtester
           ELSE /\ pc' = "returned"
                /\ backtester' =
                      [backtester EXCEPT
                          !.results =
                              [all_results |-> all,
                               successful_results |-> SelectSeq(all, IsSuccess),
                               failed_results |-> SelectSeq(all, IsFailed),
                               summary |-> calculate_summary(all)]]
    /\ UNCHANGED <<self, i, bar, results, data, tsa, kwargs, iloc>>

NextMulti ==
    \/ \E s \in Sources : Worker_start(s)
    \/ \E s \in Sources : Worker_finish(s)
    \/ \E s \in Sources : Collect(s)
    \/ Organize

SpecMulti == InitMulti /\ [][NextMulti]_vars

\* ================================= the entry check of one bar (SpecEntry)
\* the rows the entry check can meet: each of the six TA-Lib columns may still
\* be NaN (one by one, which covers what their look-backs can give), and
\* normalized_speed may be below 0.3
EntryRows ==
    { [close |-> b.close, high |-> b.high, low |-> b.low,
       atr |-> a, adx |-> x, plus_di |-> dp, minus_di |-> dm,
       ema_fast |-> ef, ema_slow |-> es, dyn_ema |-> y,
       trend_speed |-> t, normalized_speed |-> n] :
         b \in Bars, a \in Atrs, x \in Adxs,
         dp \in {NaN, 10, 30}, dm \in {NaN, 20},
         ef \in {NaN, 20, 24}, es \in {NaN, 22},
         y \in DynEmas, t \in TrendSpeeds, n \in NormSpeeds \cup {2} }

\* the bar indices at the end of the warm-up of _check_entry_conditions
EntryBars == {WarmUp - 1, WarmUp}

InitEntry ==
    /\ \E p \in ParamSets : self = InitialSelf(p)
    /\ i \in EntryBars
    /\ iloc = NoRow
    /\ pc = "bar"
    /\ bar = NoBar
    /\ results = NoResults
    /\ data = <<>>
    /\ tsa = InitialTsa
    /\ kwargs = NoKwargs
    /\ backtester = NoBacktester

\* the loop body of run_backtest at bar i, no position open, on row iloc'
Entry_check ==
    /\ pc = "bar"
    /\ \E row \in EntryRows :
          /\ iloc' = row
          /\ self' = run_bar(self, i, row)
          /\ bar' = [close |-> row.close, high |-> row.high, low |-> row.low]
    /\ pc' = "checked"
    /\ UNCHANGED <<i, results, data, tsa, kwargs, backtester>>

NextEntry == Entry_check

SpecEntry == InitEntry /\ [][NextEntry]_vars

\* ============================ one iteration past the window (SpecTsa)
\* The iteration of the indicator loop at bar index 200, the window of
\* rolling(200) full, from the loop states the first 200 iterations can
\* leave for some series.

\* bars 0..198 of the series: flat at 100.00
Flat == [open |-> 10000, high |-> 10000, low |-> 10000, close |-> 10000,
         dyn_ema |-> 10000, trend_speed |-> 0, normalized_speed |-> 5]

\* close of bar 199 and of bar 200, and dyn_ema of bar 199
TsaCloses == {9900, 10002, 10100}
TsaDynEmas == {9950, 10000, 10050}

\* close[200] - open[200]
TsaBodies == {-20, 10}

\* the raw speed accumulated through bar 199
TsaSpeeds == {-30, 0, 40}

\* self.data when iteration 200 begins: bar 199 as iteration 199 left it, bar
\* 200 with its three columns still 0.0
TsaData(prev_close, prev_dyn_ema, close, body) ==
    [n \in 1..(Window + 1) |->
        IF n < Window THEN Flat
        ELSE IF n = Window
        THEN [Flat EXCEPT !.close = prev_close, !.dyn_ema = prev_dyn_ema]
        ELSE [open |-> close - body, high |-> close + 30, low |-> close - 30,
              close |-> close,
              dyn_ema |-> 0, trend_speed |-> 0, normalized_speed |-> 0]]

InitTsa ==
    /\ \E prev_close \in TsaCloses, prev_dyn_ema \in TsaDynEmas,
          close \in TsaCloses, body \in TsaBodies, s \in TsaSpeeds :
          /\ data = TsaData(prev_close, prev_dyn_ema, close, body)
          /\ tsa = [k |-> Window, prev_counts_diff |-> prev_close,
                    dyn_ema_prev |-> prev_dyn_ema, speed |-> s,
                    pos |-> 0, x1 |-> 0, y1 |-> 10000]
    /\ self = InitialSelf(DefaultParams)
    /\ i = 0
    /\ bar = NoBar
    /\ pc = "tsa"
    /\ results = NoResults
    /\ kwargs = NoKwargs
    /\ iloc = NoRow
    /\ backtester = NoBacktester

\* iteration 200 ends in _calculate_hma's exception, after dyn_ema, the
\* crossover and the speed of the bar were computed
NextTsa == Tsa_raise

SpecTsa == InitTsa /\ [][NextTsa]_vars

\* =========================== run_backtest called twice (SpecTwice)
\* the first bar whose row a call of run_backtest on instance s reads (see
\* reads_row); the iterations before it change nothing
first_read(s) == IF s.in_position THEN 0 ELSE WarmUp

\* `for i in range(len(self.data))` of run_backtest from bar k on
RECURSIVE run_bars(_, _, _)
run_bars(s, k, d) ==
    IF k >= Len(d) THEN s ELSE run_bars(run_bar(s, k, d[k + 1]), k + 1, d)

\* run_backtest(): the instance after the call; self.results is
\* _calculate_results of it
run_backtest(s, d) ==
    close_remaining(run_bars(s, first_read(s), d), Len(d), d[Len(d)])

\* bars of the stored series: flat at 0.24, a fall to 0.20 through 0.14, a
\* spike to 0.33 closing at 0.24, flat at 0.20
TwiceBars ==
    { [close |-> 24, high |-> 24, low |-> 24], [close |-> 20, high |-> 20, low |-> 14],
      [close |-> 24, high |-> 33, low |-> 24], [close |-> 20, high |-> 20, low |-> 20] }

\* indicator columns: every long condition met, and ADX undefined
TwiceIndicators ==
    { [atr |-> 2, adx |-> x, plus_di |-> 30, minus_di |-> 10,
       ema_fast |-> 24, ema_slow |-> 20, dyn_ema |-> 18,
       trend_speed |-> 50, normalized_speed |-> 8] : x \in {NaN, 40} }

TwiceRows == {Row(b, ind) : b \in TwiceBars, ind \in TwiceIndicators}

\* a row of the warm-up, which run_backtest does not read while flat
WarmUpRow ==
    Row([close |-> 24, high |-> 24, low |-> 24],
        [atr |-> NaN, adx |-> NaN, plus_di |-> NaN, minus_di |-> NaN,
         ema_fast |-> NaN, ema_slow |-> NaN, dyn_ema |-> 24,
         trend_speed |-> 0, normalized_speed |-> 5])

\* self.data: the warm-up bars and the bars `tail` after them
TwiceData(tail) ==
    [n \in 1..(WarmUp + Len(tail)) |->
        IF n =< WarmUp THEN WarmUpRow ELSE tail[n - WarmUp]]

\* the instance holds a series of up to MaxBars bars
InitTwice ==
    /\ \E m \in 1..(MaxBars - WarmUp) :
          \E tail \in [1..m -> TwiceRows] : data = TwiceData(tail)
    /\ self = InitialSelf(DefaultParams)
    /\ i = 0
    /\ bar = NoBar
    /\ pc = "new"
    /\ results = NoResults
    /\ tsa = InitialTsa
    /\ kwargs = NoKwargs
    /\ iloc = NoRow
    /\ backtester = NoBacktester

\* a call of run_backtest on the instance, the first or the second
Call_run_backtest ==
    /\ pc \in {"new", "once"}
    /\ self' = run_backtest(self, data)
    /\ results' = calculate_results(self')
    /\ i' = Len(data)
    /\ bar' = [close |-> data[Len(data)].close, high |-> data[Len(data)].high,
               low |-> data[Len(data)].low]
    /\ pc' = IF pc = "new" THEN "once" ELSE "twice"
    /\ UNCHANGED <<data, tsa, kwargs, iloc, backtester>>

NextTwice == Call_run_backtest

SpecTwice == InitTwice /\ [][NextTwice]_vars

\* ================================================================ claims
LastTrade(s) == s.trades[Len(s.trades)]

\* the indicator values the adaptive-trend pass gives a bar
IndicatorState(row) == <<row.dyn_ema, row.trend_speed, row.normalized_speed>>

\* the constructor was given the rising 300-bar series
IsRising ==
    /\ Len(data) = Len(Rising)
    /\ \A n \in 1..Len(data) :
          /\ data[n].close = Rising[n].close /\ data[n].open = Rising[n].open
          /\ data[n].high = Rising[n].high /\ data[n].low = Rising[n].low

\* C1: on a clean series of at least 5 bars with default parameters,
\* constructing the strategy and running the backtest raises no exception.
C1_NoException ==
    Len(data) >= 5 => pc # "raised"

IsLoopStep == pc = "loop" /\ pc' = "loop"

\* C2: in every state of run_backtest in_position holds exactly when
\* position_size is non-zero, position_size is -1, 0 or +1, and the positions
\* opened so far are the closed trades plus the one open position, so none was
\* opened while another was open.
C2_PositionAgreement ==
    /\ self.in_position <=> self.position_size # 0
    /\ self.position_size \in {-1, 0, 1}
    /\ self.trade_count - Len(self.trades) = IF self.in_position THEN 1 ELSE 0

\* a short position is open after an earlier position was closed
C2_Witness ==
    /\ self.in_position
    /\ self.position_size = -1
    /\ Len(self.trades) >= 1

\* C3 as stated: a bar of the loop that records a trade opens no position.
C3_NoEntryOnExitBar ==
    [][(IsLoopStep /\ Len(self'.trades) > Len(self.trades))
          => self'.trade_count = self.trade_count]_vars

\* C3 amended: within a bar the exit check runs before the entry check: a trade
\* recorded on a bar closes the position that was open when the bar began, a
\* position opened on a bar is still open when the bar ends, and a bar that
\* opens a position while one was open has closed that one first, at the
\* price the new position enters at.
C3_ExitBeforeEntry ==
    [][IsLoopStep =>
        /\ (Len(self'.trades) > Len(self.trades) =>
              /\ self.in_position
              /\ Len(self'.trades) = Len(self.trades) + 1
              /\ LastTrade(self').exit_bar = i
              /\ LastTrade(self').entry_price = self.entry_price
              /\ LastTrade(self').position_size = self.position_size)
        /\ (self'.trade_count > self.trade_count =>
              /\ self'.trade_count = self.trade_count + 1
              /\ self'.in_position
              /\ self'.entry_price = bar'.close)
        /\ (self.in_position /\ self'.trade_count > self.trade_count =>
              /\ Len(self'.trades) = Len(self.trades) + 1
              /\ LastTrade(self').exit_price = self'.entry_price)]_vars

\* the bar just processed closed one position and opened the next
C3_Witness ==
    /\ pc = "loop"
    /\ self.in_position
    /\ Len(self.trades) >= 1
    /\ LastTrade(self).exit_bar = i - 1
    /\ self.trade_count = Len(self.trades) + 1

C5_PnlSign ==
    \A n \in 1..Len(self.trades) :
        LET t == self.trades[n]
        IN  IF t.position_size > 0
            THEN t.pnl > 0 <=> t.exit_price > t.entry_price
            ELSE t.pnl > 0 <=> t.exit_price < t.entry_price

\* a winning long and a winning short trade have been recorded
C5_Witness ==
    /\ \E n \in 1..Len(self.trades) :
          self.trades[n].position_size = 1 /\ self.trades[n].pnl > 0
    /\ \E n \in 1..Len(self.trades) :
          self.trades[n].position_size = -1 /\ self.trades[n].pnl > 0

\* C6: no position is opened at a bar index below 200.
C6_WarmUpRespected ==
    [][self'.trade_count > self.trade_count => i >= 200]_vars

\* a position was opened at bar 200, the first bar after the warm-up
C6_Witness ==
    /\ pc = "loop"
    /\ i = 201
    /\ self.trade_count = 1
    /\ self.in_position

\* C9: when run_backtest returns no position is open; a position still open
\* after the last bar is closed by exactly one further trade, at the close of
\* the last bar, with the pnl of any other exit; otherwise no trade is added.
C9_ForcedClose ==
    [][(pc = "loop" /\ pc' = "done") =>
        /\ ~self'.in_position
        /\ IF self.in_position
           THEN /\ Len(self'.trades) = Len(self.trades) + 1
                /\ SubSeq(self'.trades, 1, Len(self.trades)) = self.trades
                /\ LastTrade(self').exit_price = bar.close
                /\ LastTrade(self').exit_bar = i - 1
                /\ LastTrade(self').pnl * self.entry_price
                     = self.position_size * (bar.close - self.entry_price) * PnlScale
           ELSE self'.trades = self.trades]_vars

\* run_backtest has returned after closing a long position whose bracket the
\* last bar did not touch
C9_Witness ==
    /\ pc = "done"
    /\ Len(self.trades) >= 1
    /\ LastTrade(self).position_size = 1
    /\ LastTrade(self).exit_bar = i - 1
    /\ bar.low > LastTrade(self).stop_loss
    /\ bar.high < LastTrade(self).take_profit
    /\ LastTrade(self).pnl # 0

\* C8: no lookahead: once the constructor has ended on the full series, the
\* indicator values of every bar n are those the constructor computes on the
\* series truncated after bar n.
C8_NoLookahead ==
    pc # "tsa" =>
        \A n \in 1..Len(data) :
            LET truncated == tsa_pass(WithTsaColumns(SubSeq(data, 1, n)), InitialTsa)
            IN  /\ pc # "raised"
                /\ ~truncated.raised
                /\ IndicatorState(truncated.data[n]) = IndicatorState(data[n])

\* C10: on the rising 300-bar series with default parameters the run opens at
\* least one long position and never a short one.
C10_RisingSeriesEntersLong ==
    (IsRising /\ pc \in {"raised", "done"}) =>
        /\ self.trade_count >= 1
        /\ \A n \in 1..Len(self.trades) : self.trades[n].position_size = 1

\* the constructor was given a constant-price series
IsConstant ==
    /\ Len(data) >= 1
    /\ \A n \in 1..Len(data) :
          /\ data[n].open = data[1].close /\ data[n].high = data[1].close
          /\ data[n].low = data[1].close /\ data[n].close = data[1].close

\* C11: a constant-price series of any length produces zero trades and a
\* result with total_trades = 0, win_rate = 0, profit_factor = 0 and
\* max_drawdown = 0.
C11_ConstantSeriesNoTrades ==
    (IsConstant /\ pc \in {"raised", "done"}) =>
        /\ pc = "done"
        /\ self.trade_count = 0
        /\ self.trades = <<>>
        /\ results.total_trades = 0
        /\ results.win_rate = Zero
        /\ results.profit_factor = Zero
        /\ results.max_drawdown = 0

\* the fields of the result summary, and those of them the model holds as ratios
ResultFields ==
    {"total_trades", "win_rate", "total_return", "profit_factor", "max_drawdown",
     "sharpe_ratio", "gross_profit", "gross_loss", "win_count", "loss_count"}

RatioFields == {"win_rate", "profit_factor", "sharpe_ratio"}

\* C12: when a run closes no trade, the result summary contains every field of
\* the result interface and each of them is 0.
C12_EmptySummaryComplete ==
    (pc = "done" /\ self.trades = <<>>) =>
        \A f \in ResultFields :
            /\ f \in DOMAIN results
            /\ results[f] = IF f \in RatioFields THEN Zero ELSE 0

\* Decimal('999.99'), the profit factor AdvancedBacktestExecutor reports when
\* there is no loss, as a ratio
Sentinel == <<99999, 100>>

\* AdvancedBacktestExecutor._calculate_profit_factor (src/domain_services.py)
calculate_profit_factor(trades) ==
    IF trades = <<>> THEN Zero
    ELSE LET gross_profit == SelectPnl(trades, 1)
             gross_loss == Abs(SelectPnl(trades, -1))
         IN  IF gross_loss = 0 THEN Sentinel ELSE <<gross_profit, gross_loss>>

\* the profit factor pf of a trade list as the claim states it
ProfitFactorAsStated(pf, trades) ==
    LET gross_profit == SelectPnl(trades, 1)
        gross_loss == Abs(SelectPnl(trades, -1))
    IN  /\ trades = <<>> => pf = Zero
        /\ gross_loss > 0 => pf = <<gross_profit, gross_loss>>
        /\ (trades # <<>> /\ gross_loss = 0 /\ gross_profit > 0) => pf = Sentinel

\* C13: profit_factor is gross_profit / gross_loss when gross_loss > 0, the
\* finite sentinel 999.99 when there is a trade, no loss and a profit, and 0
\* when there are no trades; in the result of run_backtest and in
\* _calculate_profit_factor alike.
C13_ProfitFactor ==
    pc = "done" =>
        /\ ProfitFactorAsStated(calculate_profit_factor(self.trades), self.trades)
        /\ ProfitFactorAsStated(results.profit_factor, self.trades)

\* C14: a constructor call that names a length, multiplier or ratio parameter
\* with a zero or negative value is rejected: no object is constructed from it.
C14_NonPositiveRejected ==
    pc \in {"strategy", "parameters"} =>
        \A name \in DOMAIN kwargs : kwargs[name] > 0

\* C15: for any strategy class, any interleaving of the worker threads and any
\* subset of failing runs, run_comprehensive_backtest returns normally, with
\* exactly one entry of all_results per data source and with
\* successful_results and failed_results partitioning all_results.
C15_ComprehensiveReturns ==
    pc # "collect" =>
        /\ pc = "returned"
        /\ LET r == backtester.results
           IN  /\ Len(r.all_results) = MaxSources
               /\ \A s \in Sources :
                     \E n \in 1..Len(r.all_results) : r.all_results[n].symbol = s
               /\ Len(r.successful_results) + Len(r.failed_results)
                     = Len(r.all_results)
               /\ \A n \in 1..Len(r.all_results) :
                     IsSuccess(r.all_results[n]) # IsFailed(r.all_results[n])
               /\ r.summary.total_tests = MaxSources

\* C16: every recorded trade carries the index and timestamp of the bar that
\* opened its position as entry_bar / entry_date and those of the bar that
\* closed it as exit_bar / exit_date.  A trade recorded by bar i of the loop
\* closes a position that was open when the bar began, so one opened at an
\* earlier bar: its entry_bar is below its exit_bar = i and its entry_date is
\* not its exit_date.
C16_EntryBarRecorded ==
    [][(IsLoopStep /\ Len(self'.trades) > Len(self.trades)) =>
          LET t == LastTrade(self')
          IN  /\ t.exit_bar = i
              /\ t.exit_date = index(i)
              /\ t.entry_bar < t.exit_bar
              /\ t.entry_date = index(t.entry_bar)
              /\ t.entry_date # t.exit_date]_vars

\* C17: at every bar processed while a position is open, a long position is
\* closed on that bar exactly when low <= stop_loss or high >= take_profit, a
\* short one exactly when high >= stop_loss or low <= take_profit; the trade
\* recorded is that position's, and otherwise the position and its bracket stay
\* as they were.
C17_ExitRule ==
    [][(IsLoopStep /\ self.in_position) =>
          LET closed == Len(self'.trades) > Len(self.trades)
              touched == IF self.position_size > 0
                         THEN \/ bar'.low =< self.stop_loss
                              \/ bar'.high >= self.take_profit
                         ELSE \/ bar'.high >= self.stop_loss
                              \/ bar'.low =< self.take_profit
          IN  /\ closed <=> touched
              /\ closed =>
                    /\ LastTrade(self').position_size = self.position_size
                    /\ LastTrade(self').stop_loss = self.stop_loss
                    /\ LastTrade(self').take_profit = self.take_profit
              /\ ~closed =>
                    /\ self'.in_position
                    /\ self'.position_size = self.position_size
                    /\ self'.entry_price = self.entry_price
                    /\ self'.stop_loss = self.stop_loss
                    /\ self'.take_profit = self.take_profit]_vars

\* a bar of the loop closed a long position by touching its stop exactly
\* (low = stop_loss) and opened no other
C17_Witness ==
    /\ pc = "loop"
    /\ ~self.in_position
    /\ Len(self.trades) >= 1
    /\ LastTrade(self).exit_bar = i - 1
    /\ LastTrade(self).position_size = 1
    /\ bar.low = LastTrade(self).stop_loss
    /\ bar.high < LastTrade(self).take_profit

\* the entry conditions of the claim on row r with parameters p, for a long
\* (sign 1) and mirrored for a short (sign -1)
AllAligned(r, p, sign) ==
    /\ IF sign = 1 THEN Gt(r.close, r.dyn_ema) ELSE Lt(r.close, r.dyn_ema)
    /\ IF sign = 1 THEN Gt(r.trend_speed, 0) ELSE Lt(r.trend_speed, 0)
    /\ Gt(r.normalized_speed, 5)
    /\ ~(Lt(Abs(r.trend_speed), 10) \/ Lt(r.normalized_speed, 3))
    /\ IF sign = 1 THEN Gt(r.plus_di, r.minus_di) ELSE Gt(r.minus_di, r.plus_di)
    /\ Gt(r.adx, p.adx_threshold)
    /\ IF sign = 1 THEN Gt(r.ema_fast, r.ema_slow) ELSE Lt(r.ema_fast, r.ema_slow)
    /\ IF sign = 1
       THEN Gt(r.close, Sub(r.close, Mul(r.atr, p.atr_multiplier)))
       ELSE Lt(r.close, Add(r.close, Mul(r.atr, p.atr_multiplier)))

\* C18: a bar that opens a long position has all the long entry conditions
\* true on its row, a bar that opens a short position all the mirrored ones,
\* and the two sets of conditions are never both true on one row.
C18_EntryConditions ==
    pc = "checked" =>
        /\ self.position_size = 1 => AllAligned(iloc, self.params, 1)
        /\ self.position_size = -1 => AllAligned(iloc, self.params, -1)
        /\ ~(AllAligned(iloc, self.params, 1) /\ AllAligned(iloc, self.params, -1))

\* a long position was opened at bar 200
C18_Witness ==
    /\ pc = "checked"
    /\ i = 200
    /\ self.in_position
    /\ self.position_size = 1
    /\ self.entry_price = iloc.close

\* one of the TA-Lib columns of row r is still undefined
Undefined(r) ==
    \E column \in {"atr", "adx", "plus_di", "minus_di", "ema_fast", "ema_slow"} :
        r[column] = NaN

\* C19, its first part, on the entry check alone: no position is opened on a
\* row where one of atr, adx, plus_di, minus_di, ema_fast, ema_slow is NaN.
C19_NoEntryOnUndefined ==
    (pc = "checked" /\ Undefined(iloc)) =>
        /\ ~self.in_position
        /\ self.trade_count = 0

\* C19: no position is opened at a bar where an indicator is still undefined;
\* in particular a series shorter than the longest indicator warm-up yields
\* zero trades rather than a failure.
C19_ShortSeriesNoFailure ==
    (Len(data) < WarmUp /\ pc \in {"raised", "done"}) =>
        /\ pc = "done"
        /\ self.trade_count = 0
        /\ results.total_trades = 0

\* the number of trades with pnl > 0 and the sum of the pnl values
Wins(trades) == Cardinality({n \in 1..Len(trades) : trades[n].pnl > 0})
PnlSum(trades) == SumSeq([n \in 1..Len(trades) |-> trades[n].pnl])

\* C20: at every point of run_backtest and in the final result the counters
\* agree with the trade list: win_count is the number of trades with pnl > 0,
\* win_count + loss_count the number of trades, total_pnl (total_return) the
\* sum of the pnl values, and win_rate is win_count over the number of trades
\* (0 without trades).
C20_CountersAgree ==
    /\ self.win_count = Wins(self.trades)
    /\ self.win_count + self.loss_count = Len(self.trades)
    /\ self.total_pnl = PnlSum(self.trades)
    /\ pc = "done" =>
          /\ results.total_trades = Len(self.trades)
          /\ results.total_return = PnlSum(self.trades)
          /\ results.win_rate = IF Len(self.trades) = 0 THEN Zero
                                ELSE <<Wins(self.trades), Len(self.trades)>>

\* run_backtest has returned with a winning trade and a trade of pnl 0
C20_Witness ==
    /\ pc = "done"
    /\ \E n \in 1..Len(self.trades) : self.trades[n].pnl > 0
    /\ \E n \in 1..Len(self.trades) : self.trades[n].pnl = 0

\* the pnl values of a trade list, in trade order
Pnls(trades) == [n \in 1..Len(trades) |-> trades[n].pnl]

\* the largest fall of the cumulative sums of q below their running peak
PeakToTrough(q) ==
    LET c == cumsum(q)
    IN  MaxOf({MaxOf({c[j] : j \in 1..k}) - c[k] : k \in 1..Len(q)})

\* the cumulative sums of q never fall below an earlier value
NeverFalls(q) ==
    LET c == cumsum(q)
    IN  \A j, k \in 1..Len(q) : j < k => c[j] =< c[k]

\* C21: max_drawdown is the maximum over the cumulative pnl series, in trade
\* order, of running peak minus value; it is never negative and it is 0 when
\* the cumulative series never falls below an earlier value; in the result of
\* run_backtest and in CipherBacktester._calculate_max_drawdown alike.
C21_MaxDrawdown ==
    (pc = "done" /\ self.trades # <<>>) =>
        LET q == Pnls(self.trades)
        IN  /\ results.max_drawdown = PeakToTrough(q)
            /\ calculate_max_drawdown(q) = PeakToTrough(q)
            /\ results.max_drawdown >= 0
            /\ NeverFalls(q) => results.max_drawdown = 0

\* run_backtest has returned after a first trade that lost and a later fall
\* below a peak: the drawdown is positive and is not the fall below 0
C21_Witness ==
    /\ pc = "done"
    /\ Len(self.trades) >= 2
    /\ self.trades[1].pnl < 0
    /\ results.max_drawdown > 0

\* a step of the indicator loop: the iteration at index tsa.k, completed or
\* ended by an exception
IsTsaStep == pc = "tsa" /\ (pc' = "raised" \/ tsa'.k = tsa.k + 1)

\* C22: dyn_ema[0] = close[0], and at every bar i >= 1 dyn_length[i] is a
\* defined value in [5, max_length], alpha = min(1, (2 / (dyn_length[i] + 1))
\* * (1 + accel_factor[i] * accel_multiplier)) lies in (0, 1] and
\* dyn_ema[i] = alpha * close[i] + (1 - alpha) * dyn_ema[i-1].
C22_DynEma ==
    [][IsTsaStep =>
          LET k == tsa.k
              len == dyn_length(data, k)
              a == MinOf({FP, FMul(FDiv(2 * FP, len + FP),
                                   FP + accel_factor(data, tsa) * accel_multiplier)})
          IN  IF k = 0
              THEN data'[1].dyn_ema = data[1].close
              ELSE /\ IsNum(len)
                   /\ 5 * FP =< len /\ len =< max_length * FP
                   /\ IsNum(accel_factor(data, tsa))
                   /\ 0 < a /\ a =< FP
                   /\ data'[k + 1].dyn_ema
                        = (a * data[k + 1].close + (FP - a) * data[k].dyn_ema)
                             \div FP]_vars

\* |close[n] - close[n-1]|, n >= 1
AbsChange(d, n) == Abs(d[n + 1].close - d[n].close)

\* C23: at every bar i >= 1 the acceleration factor is |close[i] - close[i-1]|
\* divided by the larger of 1 and the maximum of |close[k] - close[k-1]| over
\* the trailing 200 bars.
C23_AccelFactor ==
    [][(IsTsaStep /\ tsa.k >= 1) =>
          LET k == tsa.k
              trailing == {AbsChange(data, j) :
                              j \in MaxOf({1, k - Window + 1})..k}
          IN  accel_factor(data, tsa)
                 = FDiv(AbsChange(data, k), MaxOf({100} \cup trailing))]_vars

Wma(q) == SumSeq([n \in 1..Len(q) |-> n * q[n]]) \div SumSeq([n \in 1..Len(q) |-> n])

\* the raw speeds of bars k-n+1..k after the iteration of bar k =< 4 from loop
\* state st1: below bar 4 the trend_speed column holds the raw speed itself
RawSpeeds(d, st1, k, n) ==
    [m \in 1..n |-> IF m = n THEN st1.speed ELSE d[k - n + m + 1].trend_speed]

\* C26: trend_speed[i] is the raw accumulated speed at every bar i < 4, and
\* 2*WMA(last 2 raw speeds) - WMA(last 5 raw speeds), the raw speed of bar i
\* included, at bar i >= 4 (stated here through the first bar with a full
\* window, i = 4).
C26_TrendSpeed ==
    [][(IsTsaStep /\ tsa.k =< HmaPeriod - 1) =>
          LET k == tsa.k
          IN  /\ pc' # "raised"
              /\ data'[k + 1].trend_speed =
                    IF k < HmaPeriod - 1 THEN tsa'.speed
                    ELSE 2 * Wma(RawSpeeds(data', tsa', k, 2))
                            - Wma(RawSpeeds(data', tsa', k, HmaPeriod))]_vars

\* trend_speed over the normalization_window bars ending at bar j
TrailingSpeeds(j) == {data[m + 1].trend_speed : m \in (j - collen + 1)..j}

\* C27: at every bar the loop has processed, normalized_speed is 0.5 where
\* fewer than normalization_window trend_speed values exist (bar 0 included)
\* or the trailing window has max = min, and otherwise
\* (trend_speed - min) / (max - min) over the trailing window, within [0, 1].
C27_NormalizedSpeed ==
    \A j \in 0..(tsa.k - 1) :
        LET row == data[j + 1]
        IN  IF j + 1 < collen \/ MaxOf(TrailingSpeeds(j)) = MinOf(TrailingSpeeds(j))
            THEN row.normalized_speed = 5
            ELSE /\ row.normalized_speed =
                        ((row.trend_speed - MinOf(TrailingSpeeds(j))) * 10)
                            \div (MaxOf(TrailingSpeeds(j)) - MinOf(TrailingSpeeds(j)))
                 /\ row.normalized_speed \in 0..10

RecordsTrade == Len(self'.trades) > Len(self.trades)

\* C29: whatever closes a position (stop-loss touched, take-profit touched or
\* the forced close after the last bar), the trade recorded has the close of
\* the exit bar as exit_price, and its entry_price, stop_loss and take_profit
\* are those fixed when the position was opened: set by the bar that opened
\* it, untouched while it was held, copied into the record.
C29_ExitAtClose ==
    [][/\ RecordsTrade =>
            LET t == self'.trades[Len(self.trades) + 1]
                exit_bar == IF pc' = "done" THEN bar ELSE bar'
            IN  /\ self.in_position
                /\ t.exit_price = exit_bar.close
                /\ t.entry_price = self.entry_price
                /\ t.stop_loss = self.stop_loss
                /\ t.take_profit = self.take_profit
                /\ SubSeq(self'.trades, 1, Len(self.trades)) = self.trades
       /\ (self.in_position /\ self'.in_position /\ ~RecordsTrade) =>
            /\ self'.entry_price = self.entry_price
            /\ self'.stop_loss = self.stop_loss
            /\ self'.take_profit = self.take_profit
       /\ self'.trade_count > self.trade_count =>
            /\ self'.entry_price = bar'.close
            /\ self'.in_position]_vars

\* a bar touched the stop of a long position held since an earlier bar and
\* closed above it: the trade left at the bar's close, not at the stop
C29_Witness ==
    /\ pc = "loop"
    /\ Len(self.trades) >= 1
    /\ ~self.in_position
    /\ LastTrade(self).exit_bar = i - 1
    /\ LastTrade(self).position_size = 1
    /\ bar.low =< LastTrade(self).stop_loss
    /\ LastTrade(self).exit_price = bar.close
    /\ LastTrade(self).exit_price > LastTrade(self).stop_loss
    /\ LastTrade(self).exit_price < LastTrade(self).take_profit

\* C30: a position is never checked for exit on its own entry bar: the bar
\* that opens it leaves it open, at that bar's close, and a trade recorded by
\* a bar of the loop closes a position open when the bar began.  So a trade
\* opens and closes on one bar only by an entry on the last bar and the forced
\* close after the loop, which finds entry_price = the last close: that trade
\* has exit_price = entry_price and pnl = 0, counts in loss_count and not in
\* win_count, and leaves gross_profit and gross_loss at the sums of the
\* trades before it.
C30_NoExitOnEntryBar ==
    [][/\ (IsLoopStep /\ self'.trade_count > self.trade_count) =>
            /\ self'.in_position
            /\ self'.entry_price = bar'.close
            /\ Len(self'.trades) =< Len(self.trades) + 1
       /\ (IsLoopStep /\ RecordsTrade) => self.in_position
       /\ (pc = "loop" /\ pc' = "done" /\ self.in_position
             /\ self.entry_price = bar.close) =>
            /\ RecordsTrade
            /\ LastTrade(self').exit_price = LastTrade(self').entry_price
            /\ LastTrade(self').pnl = 0
            /\ self'.loss_count = self.loss_count + 1
            /\ self'.win_count = self.win_count
            /\ self'.total_pnl = self.total_pnl
            /\ results'.gross_profit = SelectPnl(self.trades, 1)
            /\ results'.gross_loss = Abs(SelectPnl(self.trades, -1))]_vars

\* a series of 201 bars: the position opened on its last bar, the first past
\* the warm-up, and the forced close made the only trade
C30_Witness ==
    /\ pc = "done"
    /\ i = WarmUp + 1
    /\ Len(self.trades) = 1
    /\ LastTrade(self).exit_price = LastTrade(self).entry_price
    /\ LastTrade(self).exit_price = bar.close
    /\ LastTrade(self).pnl = 0
    /\ self.loss_count = 1
    /\ self.win_count = 0
    /\ results.gross_profit = 0
    /\ results.gross_loss = 0

====
